---- MODULE Spec2Model ----
(***************************************************************************)
(* Model of the loom tracer core:                                          *)
(*   - Logger (cpp/logger/Logger.h): the sentinel-skipping entry id        *)
(*     allocator and the write / writeAndGetCursor producer calls, run by  *)
(*     concurrent producer threads.                                        *)
(*   - TraceLifecycleVisitor (cpp/writer/TraceLifecycleVisitor.cpp): the   *)
(*     single-threaded consumer's trace file lifecycle.                    *)
(* The two halves share no state; each has its own specification.          *)
(***************************************************************************)
EXTENDS Integers, Sequences, FiniteSets, TLC

(***************************************************************************)
(* Bounds of the model.                                                    *)
(***************************************************************************)
NumThreads == 2
MaxCalls == 3
MaxVisits == 4
\* getTraceID is called with every id up to MaxSmallId
MaxSmallId == 70
\* sanitize is called with every string of at most MaxStrLen characters
MaxStrLen == 2

(***************************************************************************)
(* Logger.h                                                                *)
(***************************************************************************)
TRACING_DISABLED == -1
NO_MATCH == 0

\* int32_t range of std::atomic<int32_t> entryID_
MaxInt32 == 2147483647
MinInt32 == (-MaxInt32) - 1
\* uint16_t range of id_step
MaxUInt16 == 65535

Threads == 1..NumThreads

\* id_step values a caller passes to write (uint16_t, default 1)
Steps == {0, 1, MaxUInt16}

\* Counter values the calls of a run start from: 0 is the value set by the
\* constructor; the others are values left behind by earlier calls (with
\* step 1 every int32 value is reached), one next to the sentinels and one
\* next to the int32 boundary.
StartIDs == {0, -2, MaxInt32 - 1}

VARIABLES
  entryID_,    \* std::atomic<int32_t> entryID_
  wraps,       \* ghost: how many times entryID_ has wrapped past MaxInt32
  cursor,      \* producer cursor of the ring buffer behind logger_
  pc,          \* per thread: position inside write / writeAndGetCursor
  api,         \* per thread: which call it is in
  step,        \* per thread: the step argument of nextID
  id,          \* per thread: local variable id of nextID, then entry.id
  fetches,     \* ghost, per thread: fetch-adds performed by the current call
  allocs,      \* ghost: the valid ids in the order of their fetch-adds
  returned,    \* ghost: the calls that have returned, in return order
  calls,       \* ghost: number of calls started
  invokedAt,   \* ghost, per thread: calls returned when its call was invoked
  startID      \* ghost: the value of entryID_ the run started from

loggerVars == <<entryID_, wraps, cursor, pc, api, step, id, fetches, allocs,
                returned, calls, invokedAt, startID>>

\* TraceLifecycleVisitor
VARIABLES
  expected_trace_,  \* int64_t expected_trace_
  callbacks_,       \* whether callbacks_.get() != nullptr
  output_,          \* <<>> for nullptr, else <<path of the open file>>
  delegates_,       \* the vector of visitors, in emplace_back order
  done_,            \* bool done_
  caller,           \* the consumer loop driving the visitor
  visits,           \* ghost: number of visit(...) / abort(...) calls made
  lastCall,         \* ghost: the last call and its argument
  lastEvents,       \* ghost: what the last call did, in order
  lastExc,          \* ghost: the exception the last call exited with
  fileLines,        \* ghost: what was written to the last opened file
  cbLog,            \* ghost: callbacks invoked since the last onTraceStart
  prior,            \* the running prior of the DeltaEncodingVisitor that
                    \* was constructed last (nothing reads it once
                    \* delegates_.clear() has destroyed the visitor)
  printed,          \* ghost: per line of fileLines, the entry as it reached
                    \* the PrintEntryVisitor
  opened            \* ghost: number of output files opened so far

visitorVars == <<expected_trace_, callbacks_, output_, delegates_, done_,
                 caller, visits, lastCall, lastEvents, lastExc, fileLines,
                 cbLog, prior, printed, opened>>

\* getTraceID and sanitize, called on their own
VARIABLES
  gt_trace_id,  \* the argument of getTraceID
  gt_result,    \* what getTraceID returned or threw, once it was called
  san_input,    \* the argument of sanitize
  san_result,   \* sanitize(san_input), once it was called
  san_again     \* sanitize(san_result), once it was called

helperVars == <<gt_trace_id, gt_result, san_input, san_result, san_again>>

vars == <<loggerVars, visitorVars, helperVars>>

\* faulty variant: the counter is read but not advanced
FetchAddDropsStep(old, s) == old

\* faulty variant: the counter is moved down instead of up
FetchAddSubtracts(old, s) == old - s

\* the value fetch_add(step) stores: two's complement wrap-around at 32 bits
\* (computed without leaving the int32 range)
FetchAddValue(old, s) ==
  IF old > MaxInt32 - s
    THEN MinInt32 + (s - (MaxInt32 - old) - 1)
    ELSE old + s

\* whether fetch_add(step) on value old wraps around
Overflows(old, s) == old > MaxInt32 - s

\* faulty variant: the loop tests one sentinel only
IsSentinelOnlyDisabled(v) == v = TRACING_DISABLED

\* faulty variant: the loop tests the other sentinel only
IsSentinelOnlyNoMatch(v) == v = NO_MATCH

\* faulty variant: the loop also rejects the id 1
IsSentinelOrOne(v) == v = TRACING_DISABLED \/ v = NO_MATCH \/ v = 1

\* the loop condition of nextID
IsSentinel(v) == v = TRACING_DISABLED \/ v = NO_MATCH

LoggerInit ==
  /\ entryID_ \in StartIDs
  /\ wraps = 0
  /\ cursor = 0
  /\ pc = [t \in Threads |-> "idle"]
  /\ api = [t \in Threads |-> "none"]
  /\ step = [t \in Threads |-> 1]
  /\ id = [t \in Threads |-> 0]
  /\ fetches = [t \in Threads |-> 0]
  /\ allocs = <<>>
  /\ returned = <<>>
  /\ calls = 0
  /\ invokedAt = [t \in Threads |-> 0]
  /\ startID = entryID_

\* whether thread t has made a call
HasCalled(t) ==
  pc[t] # "idle" \/ \E k \in 1..Len(returned) : returned[k].thread = t

\* the threads are interchangeable: they are numbered in the order of their
\* first calls
MayCall(t) == \A u \in Threads : u < t => HasCalled(u)

\* one iteration of the do-while of nextID by thread t, its n-th: an atomic
\* fetch_add, then the loop test on the value read
FetchAdd(t, s, n) ==
  /\ id' = [id EXCEPT ![t] = entryID_]
  /\ entryID_' = FetchAddValue(entryID_, s)
  /\ wraps' = IF Overflows(entryID_, s) THEN wraps + 1 ELSE wraps
  /\ fetches' = [fetches EXCEPT ![t] = n]
  /\ IF IsSentinel(entryID_)
       THEN /\ pc' = [pc EXCEPT ![t] = "nextID"]
            /\ UNCHANGED allocs
       ELSE /\ pc' = [pc EXCEPT ![t] = "log"]
            /\ allocs' = Append(allocs,
                 [thread |-> t, id |-> entryID_, epoch |-> wraps,
                  step |-> s])

\* a thread enters write(entry, id_step) and runs nextID(id_step) up to its
\* first loop test
write(t, s) ==
  /\ pc[t] = "idle"
  /\ MayCall(t)
  /\ calls < MaxCalls
  /\ calls' = calls + 1
  /\ api' = [api EXCEPT ![t] = "write"]
  /\ step' = [step EXCEPT ![t] = s]
  /\ invokedAt' = [invokedAt EXCEPT ![t] = Len(returned)]
  /\ FetchAdd(t, s, 1)
  /\ UNCHANGED <<cursor, returned, startID>>
  /\ UNCHANGED <<visitorVars, helperVars>>

\* a thread enters writeAndGetCursor(entry, cursor) and runs nextID(), with
\* the default step 1, up to its first loop test
writeAndGetCursor(t) ==
  /\ pc[t] = "idle"
  /\ MayCall(t)
  /\ calls < MaxCalls
  /\ calls' = calls + 1
  /\ api' = [api EXCEPT ![t] = "writeAndGetCursor"]
  /\ step' = [step EXCEPT ![t] = 1]
  /\ invokedAt' = [invokedAt EXCEPT ![t] = Len(returned)]
  /\ FetchAdd(t, 1, 1)
  /\ UNCHANGED <<cursor, returned, startID>>
  /\ UNCHANGED <<visitorVars, helperVars>>

\* a further iteration of the do-while of nextID, after a sentinel was read
nextID(t) ==
  /\ pc[t] = "nextID"
  /\ FetchAdd(t, step[t], IF fetches[t] < 4 THEN fetches[t] + 1 ELSE 4)
  /\ UNCHANGED <<cursor, api, step, returned, calls, invokedAt, startID>>
  /\ UNCHANGED <<visitorVars, helperVars>>

\* the allocation made by the call thread t is in: entry.id = nextID(...)
LastAllocOf(t) ==
  CHOOSE k \in 1..Len(allocs) :
    /\ allocs[k].thread = t
    /\ \A k2 \in (k + 1)..Len(allocs) : allocs[k2].thread # t

\* whether the call of thread t has run with no other call in progress
\* since it was invoked
Alone(t) == invokedAt[t] = Len(returned) /\ calls = Len(returned) + 1

\* logger_.write(payload, size): one fetch-add on the producer cursor claims
\* the packets of the entry
PacketLoggerWrite(c) == c + 1

\* pack the entry, logger_.write / logger_.writeAndGetCursor claims the next
\* packets of the ring buffer with one fetch-add on the producer cursor, and
\* the call returns entry.id (its locals die with it)
logWrite(t) ==
  /\ pc[t] = "log"
  /\ cursor' = PacketLoggerWrite(cursor)
  /\ returned' = Append(returned,
       [thread |-> t, id |-> id[t], step |-> step[t],
        fetches |-> fetches[t], cursor |-> cursor,
        seq |-> LastAllocOf(t), epoch |-> allocs[LastAllocOf(t)].epoch,
        invokedAt |-> invokedAt[t], alone |-> Alone(t)])
  /\ pc' = [pc EXCEPT ![t] = "idle"]
  /\ api' = [api EXCEPT ![t] = "none"]
  /\ step' = [step EXCEPT ![t] = 1]
  /\ id' = [id EXCEPT ![t] = 0]
  /\ fetches' = [fetches EXCEPT ![t] = 0]
  /\ invokedAt' = [invokedAt EXCEPT ![t] = 0]
  /\ UNCHANGED <<entryID_, wraps, allocs, calls, startID>>
  /\ UNCHANGED <<visitorVars, helperVars>>

LoggerNext ==
  \/ \E t \in Threads, s \in Steps : write(t, s)
  \/ \E t \in Threads : writeAndGetCursor(t)
  \/ \E t \in Threads : nextID(t)
  \/ \E t \in Threads : logWrite(t)

(***************************************************************************)
(* TraceLifecycleVisitor.cpp                                               *)
(***************************************************************************)

\* strings are sequences of one-character strings
UpperCase == {"A","B","C","D","E","F","G","H","I","J","K","L","M",
              "N","O","P","Q","R","S","T","U","V","W","X","Y","Z"}
LowerCase == {"a","b","c","d","e","f","g","h","i","j","k","l","m",
              "n","o","p","q","r","s","t","u","v","w","x","y","z"}
Digits == {"0","1","2","3","4","5","6","7","8","9"}

kBase64Alphabet ==
  <<"A","B","C","D","E","F","G","H","I","J","K","L","M",
    "N","O","P","Q","R","S","T","U","V","W","X","Y","Z",
    "a","b","c","d","e","f","g","h","i","j","k","l","m",
    "n","o","p","q","r","s","t","u","v","w","x","y","z",
    "0","1","2","3","4","5","6","7","8","9","+","/">>

kTraceIdStringLen == 11

\* faulty variant: the digits are stored from the front of result, least
\* significant first
RECURSIVE getTraceIDLoopLeastFirst(_, _, _)
getTraceIDLoopLeastFirst(idx, trace_id, result) ==
  IF idx < 0
    THEN result
    ELSE getTraceIDLoopLeastFirst(idx - 1, trace_id \div 64,
           [result EXCEPT ![kTraceIdStringLen - idx] =
              kBase64Alphabet[(trace_id % 64) + 1]])

\* the for loop of getTraceID, idx counting down from kTraceIdStringLen - 1
\* to 0 (result is indexed from 1 here)
RECURSIVE getTraceIDLoop(_, _, _)
getTraceIDLoop(idx, trace_id, result) ==
  IF idx < 0
    THEN result
    ELSE getTraceIDLoop(idx - 1, trace_id \div 64,
           [result EXCEPT ![idx + 1] = kBase64Alphabet[(trace_id % 64) + 1]])

\* faulty variant: no test for a negative trace id
getTraceIDUnchecked(trace_id) ==
  [exc |-> "none",
   value |-> getTraceIDLoop(kTraceIdStringLen - 1, trace_id,
                            [i \in 1..kTraceIdStringLen |-> ""])]

\* faulty variant: the least significant digit comes first
getTraceIDLeastFirst(trace_id) ==
  IF trace_id < 0
    THEN [exc |-> "invalid_argument", value |-> <<>>]
    ELSE [exc |-> "none",
          value |-> getTraceIDLoopLeastFirst(
                      kTraceIdStringLen - 1, trace_id,
                      [i \in 1..kTraceIdStringLen |-> ""])]

getTraceID(trace_id) ==
  IF trace_id < 0
    THEN [exc |-> "invalid_argument", value |-> <<>>]
    ELSE [exc |-> "none",
          value |-> getTraceIDLoop(kTraceIdStringLen - 1, trace_id,
                                   [i \in 1..kTraceIdStringLen |-> ""])]

\* getpid() and the local time fields, as printed into the file name
Pid == <<"7">>
LocalTime == <<"2","0","1","7","-","1","-","2","T","3","-","4","-","5">>

getTraceFilename(trace_prefix, trace_id) ==
  trace_prefix \o <<"-">> \o Pid \o <<"-">> \o LocalTime
    \o <<"-">> \o trace_id \o <<".","t","m","p">>

\* faulty variant: the dot is not accepted
is_validNoDot(ch) ==
  \/ ch \in UpperCase
  \/ ch \in LowerCase
  \/ ch \in Digits
  \/ ch = "-" \/ ch = "_"

is_valid(ch) ==
  \/ ch \in UpperCase
  \/ ch \in LowerCase
  \/ ch \in Digits
  \/ ch = "-" \/ ch = "_" \/ ch = "."

sanitize(input) ==
  [idx \in DOMAIN input |-> IF is_valid(input[idx]) THEN input[idx] ELSE "_"]

\* constructor arguments
folder_ == <<"/","d">>
trace_prefix_ == <<"p","+">>
\* the trace ids a visitor is constructed with, and that entries carry
TraceIds == {-1, 42}
\* matchid of the entries (the flags of a TRACE_START)
MatchIds == {7}

AbortReasons == {"CONTROLLER_INITIATED", "TIMEOUT", "NEW_START"}

StandardTypes == {"STACK_FRAME", "TRACE_START", "TRACE_END", "TRACE_ABORT",
                  "TRACE_TIMEOUT", "TRACE_BACKWARDS", "TRACE_ANNOTATION"}

\* the timestamp of the entries, and the frames of a FramesEntry
Timestamps == {1050}
Frames == {<<"0xA", "0xB">>}

StandardEntries ==
  [kind : {"StandardEntry"}, type : StandardTypes, extra : TraceIds,
   matchid : MatchIds, timestamp : Timestamps, frames : {<<>>}]
FramesEntries ==
  [kind : {"FramesEntry"}, type : {"STACK_FRAME"}, extra : {0},
   matchid : MatchIds, timestamp : Timestamps, frames : Frames]
BytesEntries ==
  [kind : {"BytesEntry"}, type : {"TRACE_ANNOTATION"}, extra : {0},
   matchid : MatchIds, timestamp : Timestamps, frames : {<<>>}]
NoEntry ==
  [kind |-> "none", type |-> "none", extra |-> 0, matchid |-> 0,
   timestamp |-> 0, frames |-> <<>>]

\* what the environment does to the call: nothing, or the one system call
\* or stream operation that fails
EnvOutcomes == {"ok", "folder_fail", "localtime_fail", "open_fail",
                "header_fail", "write_fail"}
\* the outcomes that make a difference to an entry: only the TRACE_START case
\* of visit reaches the folder, the clock and the file
EnvOutcomesOf(entry) ==
  IF entry.kind = "StandardEntry"
       /\ entry.type \in {"TRACE_START", "TRACE_BACKWARDS"}
    THEN EnvOutcomes
    ELSE {"ok", "write_fail"}


\* events and callbacks, all of one record shape
Event(ev) ==
  [ev |-> ev, trace_id |-> 0, flags |-> 0, reason |-> "", path |-> <<>>,
   entry |-> NoEntry]
EnsureFolderEvent(folder) == [Event("ensureFolder") EXCEPT !.path = folder]
OpenEvent(file) == [Event("open") EXCEPT !.path = file]
HeaderEvent(idstr) == [Event("writeHeaders") EXCEPT !.path = idstr]
WriteEvent(entry) == [Event("write") EXCEPT !.entry = entry]
OnTraceStartCb(trace_id, flags, file) ==
  [Event("onTraceStart") EXCEPT !.trace_id = trace_id, !.flags = flags,
                                !.path = file]
OnTraceAbortCb(trace_id, reason) ==
  [Event("onTraceAbort") EXCEPT !.trace_id = trace_id, !.reason = reason]
OnTraceEndCb(trace_id) == [Event("onTraceEnd") EXCEPT !.trace_id = trace_id]

\* the visitor's fields and the ghost record of one call, threaded through
\* the member functions below
Cur ==
  [output_ |-> output_, delegates_ |-> delegates_, done_ |-> done_,
   fileLines |-> fileLines, cbLog |-> cbLog, prior |-> prior,
   printed |-> printed, opened |-> opened, events |-> <<>>,
   exc |-> "none"]

Emit(s, e) == [s EXCEPT !.events = Append(@, e)]
Throw(s, exc) == [s EXCEPT !.exc = exc]

hasDelegate(s) == s.delegates_ # <<>>

\* the precision the TimestampTruncatingVisitor is constructed with
kTimestampPrecision == 100

\* TimestampTruncatingVisitor: integer division, then multiplication
truncate(timestamp) ==
  (timestamp \div kTimestampPrecision) * kTimestampPrecision

\* StackTraceInvertingVisitor: the frames in reverse order
invert(frames) == [k \in 1..Len(frames) |-> frames[Len(frames) + 1 - k]]

\* the entry as the visitors of the pipeline hand it on, with the classes
\* of the visitors it has been through
InFlight(entry) ==
  [timestamp |-> entry.timestamp, frames |-> entry.frames, stages |-> <<>>]

\* the visitor at index i of delegates_ visits the entry: it transforms it
\* and hands it to its delegate, which is the visitor that was
\* delegates_.back() when it was constructed (index i - 1); the
\* PrintEntryVisitor writes it into the output stream, which throws when the
\* write fails
RECURSIVE delegateVisit(_, _, _, _, _)
delegateVisit(s, i, entry, inflight, env) ==
  LET class == s.delegates_[i]
      seen == [inflight EXCEPT !.stages = Append(@, class)]
  IN CASE class = "StackTraceInvertingVisitor" ->
            delegateVisit(s, i - 1, entry,
                          [seen EXCEPT !.frames = invert(@)], env)
       [] class = "TimestampTruncatingVisitor" ->
            delegateVisit(s, i - 1, entry,
                          [seen EXCEPT !.timestamp = truncate(@)], env)
       [] class = "DeltaEncodingVisitor" ->
            delegateVisit([s EXCEPT !.prior = inflight.timestamp], i - 1,
                          entry,
                          [seen EXCEPT !.timestamp = @ - s.prior], env)
       [] OTHER ->
            IF env = "write_fail"
              THEN Throw(s, "io_failure")
              ELSE [Emit(s, WriteEvent(entry))
                      EXCEPT !.fileLines = Append(@, entry),
                             !.printed = Append(@, seen)]

\* delegates_.back()->visit(entry): the entry goes through the pipeline into
\* the output stream
forward(s, entry, env) ==
  delegateVisit(s, Len(s.delegates_), entry, InFlight(entry), env)

\* delegates_.clear(); output_ = nullptr (which closes the file)
cleanupState(s) ==
  Emit([s EXCEPT !.delegates_ = <<>>, !.output_ = <<>>],
       Event("cleanupState"))

\* faulty variant: the abort is not reported
onTraceAbortNoCallback(s, trace_id, reason) ==
  cleanupState([s EXCEPT !.done_ = TRUE])

\* faulty variant: the callback runs before the file is closed
onTraceAbortCallbackFirst(s, trace_id, reason) ==
  LET s1 == [s EXCEPT !.done_ = TRUE]
  IN IF callbacks_
       THEN cleanupState(
              [Emit(s1, OnTraceAbortCb(trace_id, reason))
                 EXCEPT !.cbLog = Append(@, OnTraceAbortCb(trace_id, reason))])
       ELSE cleanupState(s1)

onTraceAbort(s, trace_id, reason) ==
  LET s1 == cleanupState([s EXCEPT !.done_ = TRUE])
  IN IF callbacks_
       THEN [Emit(s1, OnTraceAbortCb(trace_id, reason))
               EXCEPT !.cbLog = Append(@, OnTraceAbortCb(trace_id, reason))]
       ELSE s1

onTraceEnd(s, trace_id) ==
  LET s1 == cleanupState([s EXCEPT !.done_ = TRUE])
  IN IF callbacks_
       THEN [Emit(s1, OnTraceEndCb(trace_id))
               EXCEPT !.cbLog = Append(@, OnTraceEndCb(trace_id))]
       ELSE s1

abort(s, reason) == onTraceAbort(s, expected_trace_, reason)

\* the header block: magic, version, id, precision, the trace headers and
\* the blank line
writeHeaders(s, idstr) ==
  [Emit(s, HeaderEvent(idstr))
     EXCEPT !.fileLines = Append(@, [NoEntry EXCEPT !.kind = "header",
                                                    !.type = "dt"]),
            !.printed = Append(@, InFlight(NoEntry))]

\* faulty variant: the truncating visitor is constructed around the printer
\* and the delta encoder around the truncating visitor
PipelineDeltaBeforeTruncation ==
  <<"PrintEntryVisitor", "TimestampTruncatingVisitor",
    "DeltaEncodingVisitor", "StackTraceInvertingVisitor">>

\* the classes of the visitors, in the order of the emplace_back calls
Pipeline == <<"PrintEntryVisitor", "DeltaEncodingVisitor",
              "TimestampTruncatingVisitor", "StackTraceInvertingVisitor">>

\* faulty variant: the delta encoder of the last trace is used again
constructPipelineKeepsPrior(s) == [s EXCEPT !.delegates_ = Pipeline]

\* the four emplace_back calls: each visitor is a new object, and a new
\* DeltaEncodingVisitor has no prior timestamp
constructPipeline(s) == [s EXCEPT !.delegates_ = Pipeline, !.prior = 0]

\* faulty variant: the callback is handed the trace id as its flags
onTraceStartFlagsFromId(s, trace_id, flags, env) ==
  IF trace_id # expected_trace_ THEN s
  ELSE IF s.output_ # <<>> THEN abort(s, "NEW_START")
  ELSE
    LET r == getTraceID(trace_id) IN
    IF r.exc # "none" THEN Throw(s, r.exc)
    ELSE
      LET trace_id_string == r.value
          trace_folder == folder_ \o <<"/">> \o sanitize(trace_id_string)
          trace_file ==
            trace_folder \o <<"/">>
              \o sanitize(getTraceFilename(trace_prefix_, trace_id_string))
          s1 == Emit(s, EnsureFolderEvent(trace_folder))
          s2 == Emit([s1 EXCEPT !.output_ = <<trace_file>>,
                                !.fileLines = <<>>,
                                !.printed = <<>>,
                                !.opened = @ + 1],
                     OpenEvent(trace_file))
          s3 == writeHeaders(s2, trace_id_string)
          s4 == Emit(constructPipeline(s3), Event("pipeline"))
          s5 == IF callbacks_
                  THEN [Emit(s4,
                             OnTraceStartCb(trace_id, trace_id, trace_file))
                          EXCEPT !.cbLog =
                            <<OnTraceStartCb(trace_id, trace_id, trace_file)>>]
                  ELSE s4
      IN IF env = "folder_fail" THEN Throw(s, "system_error")
         ELSE IF env = "localtime_fail" THEN Throw(s1, "runtime_error")
         ELSE IF env = "open_fail" THEN Throw(s1, "open_failure")
         ELSE IF env = "header_fail" THEN Throw(s2, "io_failure")
         ELSE [s5 EXCEPT !.done_ = FALSE]

onTraceStart(s, trace_id, flags, env) ==
  IF trace_id # expected_trace_ THEN s
  ELSE IF s.output_ # <<>> THEN abort(s, "NEW_START")
  ELSE
    LET r == getTraceID(trace_id) IN
    IF r.exc # "none" THEN Throw(s, r.exc)
    ELSE
      LET trace_id_string == r.value
          trace_folder == folder_ \o <<"/">> \o sanitize(trace_id_string)
          trace_file ==
            trace_folder \o <<"/">>
              \o sanitize(getTraceFilename(trace_prefix_, trace_id_string))
          s1 == Emit(s, EnsureFolderEvent(trace_folder))
          s2 == Emit([s1 EXCEPT !.output_ = <<trace_file>>,
                                !.fileLines = <<>>,
                                !.printed = <<>>,
                                !.opened = @ + 1],
                     OpenEvent(trace_file))
          s3 == writeHeaders(s2, trace_id_string)
          s4 == Emit(constructPipeline(s3), Event("pipeline"))
          s5 == IF callbacks_
                  THEN [Emit(s4, OnTraceStartCb(trace_id, flags, trace_file))
                          EXCEPT !.cbLog =
                            <<OnTraceStartCb(trace_id, flags, trace_file)>>]
                  ELSE s4
      IN IF env = "folder_fail" THEN Throw(s, "system_error")
         ELSE IF env = "localtime_fail" THEN Throw(s1, "runtime_error")
         ELSE IF env = "open_fail" THEN Throw(s1, "open_failure")
         ELSE IF env = "header_fail" THEN Throw(s2, "io_failure")
         ELSE [s5 EXCEPT !.done_ = FALSE]

\* visit(const StandardEntry&)
visitStandardEntry(s, entry, env) ==
  CASE entry.type = "TRACE_END" ->
         IF entry.extra # expected_trace_ THEN s
         ELSE LET s1 == IF hasDelegate(s) THEN forward(s, entry, env) ELSE s
              IN IF s1.exc # "none" THEN s1 ELSE onTraceEnd(s1, entry.extra)
    [] entry.type \in {"TRACE_TIMEOUT", "TRACE_ABORT"} ->
         IF entry.extra # expected_trace_ THEN s
         ELSE LET reason == IF entry.type = "TRACE_TIMEOUT"
                              THEN "TIMEOUT" ELSE "CONTROLLER_INITIATED"
                  s1 == IF hasDelegate(s) THEN forward(s, entry, env) ELSE s
              IN IF s1.exc # "none" THEN s1
                 ELSE onTraceAbort(s1, entry.extra, reason)
    [] entry.type \in {"TRACE_BACKWARDS", "TRACE_START"} ->
         LET s1 == onTraceStart(s, entry.extra, entry.matchid, env)
         IN IF s1.exc # "none" THEN s1
            ELSE IF hasDelegate(s1) THEN forward(s1, entry, env) ELSE s1
    [] OTHER ->
         IF hasDelegate(s) THEN forward(s, entry, env) ELSE s

\* visit(const FramesEntry&)
visitFramesEntry(s, entry, env) ==
  IF hasDelegate(s) THEN forward(s, entry, env) ELSE s

\* faulty variant: the entry is not handed to the pipeline
visitBytesEntryDropped(s, entry, env) == s

\* visit(const BytesEntry&)
visitBytesEntry(s, entry, env) ==
  IF hasDelegate(s) THEN forward(s, entry, env) ELSE s

VisitorInit ==
  /\ expected_trace_ \in TraceIds
  /\ callbacks_ \in BOOLEAN
  /\ output_ = <<>>
  /\ delegates_ = <<>>
  /\ done_ = FALSE
  /\ caller = "loop"
  /\ visits = 0
  /\ lastCall = [op |-> "none", entry |-> NoEntry, reason |-> ""]
  /\ lastEvents = <<>>
  /\ lastExc = "none"
  /\ fileLines = <<>>
  /\ cbLog = <<>>
  /\ prior = 0
  /\ printed = <<>>
  /\ opened = 0

\* the call returns or exits with s.exc; an output stream failure is caught
\* by the consumer loop
Commit(s) ==
  /\ output_' = s.output_
  /\ delegates_' = s.delegates_
  /\ done_' = s.done_
  /\ fileLines' = s.fileLines
  /\ cbLog' = s.cbLog
  /\ prior' = s.prior
  /\ printed' = s.printed
  /\ opened' = s.opened
  /\ lastEvents' = s.events
  /\ lastExc' = s.exc
  /\ caller' = IF s.exc = "io_failure" THEN "catch" ELSE "loop"
  /\ UNCHANGED <<expected_trace_, callbacks_>>

VisitStandard(entry, env) ==
  /\ caller = "loop"
  /\ visits < MaxVisits
  /\ visits' = visits + 1
  /\ lastCall' = [op |-> "visit", entry |-> entry, reason |-> ""]
  /\ Commit(visitStandardEntry(Cur, entry, env))
  /\ UNCHANGED <<loggerVars, helperVars>>

VisitFrames(entry, env) ==
  /\ caller = "loop"
  /\ visits < MaxVisits
  /\ visits' = visits + 1
  /\ lastCall' = [op |-> "visit", entry |-> entry, reason |-> ""]
  /\ Commit(visitFramesEntry(Cur, entry, env))
  /\ UNCHANGED <<loggerVars, helperVars>>

VisitBytes(entry, env) ==
  /\ caller = "loop"
  /\ visits < MaxVisits
  /\ visits' = visits + 1
  /\ lastCall' = [op |-> "visit", entry |-> entry, reason |-> ""]
  /\ Commit(visitBytesEntry(Cur, entry, env))
  /\ UNCHANGED <<loggerVars, helperVars>>

\* abort(reason) called from outside
Abort(reason) ==
  /\ caller = "loop"
  /\ visits < MaxVisits
  /\ visits' = visits + 1
  /\ lastCall' = [op |-> "abort", entry |-> NoEntry, reason |-> reason]
  /\ Commit(abort(Cur, reason))
  /\ UNCHANGED <<loggerVars, helperVars>>

\* the consumer loop's handling of an output stream failure: an implicit
\* abort with reason CONTROLLER_INITIATED
OnOutputFailure ==
  /\ caller = "catch"
  /\ lastCall' = [op |-> "outputFailure", entry |-> lastCall.entry,
                  reason |-> "CONTROLLER_INITIATED"]
  /\ Commit(abort(Cur, "CONTROLLER_INITIATED"))
  /\ UNCHANGED <<visits, loggerVars, helperVars>>

VisitorNext ==
  \/ \E e \in StandardEntries :
       \E env \in EnvOutcomesOf(e) : VisitStandard(e, env)
  \/ \E e \in FramesEntries :
       \E env \in EnvOutcomesOf(e) : VisitFrames(e, env)
  \/ \E e \in BytesEntries :
       \E env \in EnvOutcomesOf(e) : VisitBytes(e, env)
  \/ \E r \in AbortReasons : Abort(r)
  \/ OnOutputFailure

\* the entries of a run that looks at the timestamps: lifecycle entries of
\* the expected trace and stack frames, at two timestamps whose difference
\* is below the precision and which truncate to different values
PipelineTimestamps == {1050, 1100}
PipelineStandardEntries ==
  [kind : {"StandardEntry"},
   type : {"TRACE_START", "TRACE_END", "TRACE_ABORT", "TRACE_TIMEOUT"},
   extra : {42}, matchid : MatchIds, timestamp : PipelineTimestamps,
   frames : {<<>>}]
PipelineFramesEntries ==
  [kind : {"FramesEntry"}, type : {"STACK_FRAME"}, extra : {0},
   matchid : MatchIds, timestamp : PipelineTimestamps, frames : Frames]

PipelineNext ==
  \/ \E e \in PipelineStandardEntries : VisitStandard(e, "ok")
  \/ \E e \in PipelineFramesEntries : VisitFrames(e, "ok")
  \/ \E r \in AbortReasons : Abort(r)

(***************************************************************************)
(* getTraceID and sanitize on their own                                    *)
(***************************************************************************)

\* the trace ids getTraceID is called with: every id up to MaxSmallId, the
\* ids around the powers of 64 and the largest ones (TLC's integers are 32
\* bits wide), and two negative ones
TraceIdInputs ==
  (-2..MaxSmallId) \cup
  {64 * 64 - 1, 64 * 64, 64 * 64 * 64 - 1, 64 * 64 * 64,
   64 * 64 * 64 * 64 - 1, 64 * 64 * 64 * 64,
   64 * 64 * 64 * 64 * 64 - 1, 64 * 64 * 64 * 64 * 64,
   123456789, MaxInt32 - 1, MaxInt32}

\* the characters of the strings sanitize is called with: some it keeps (a
\* letter of each case, a digit, the three punctuation marks) and some it
\* replaces (the two last digits of the base-64 alphabet, a space)
SanitizeChars == {"A", "z", "0", "-", "_", ".", "+", "/", " "}
SanitizeInputs ==
  UNION {[1..n -> SanitizeChars] : n \in 0..MaxStrLen}

NotCalled == [exc |-> "not called", value |-> <<>>]
NotSanitized == <<"not called">>

HelpersAtRest ==
  /\ gt_trace_id = 0
  /\ gt_result = NotCalled
  /\ san_input = <<>>
  /\ san_result = NotSanitized
  /\ san_again = NotSanitized

GetTraceIDInit ==
  /\ gt_trace_id \in TraceIdInputs
  /\ gt_result = NotCalled
  /\ san_input = <<>>
  /\ san_result = NotSanitized
  /\ san_again = NotSanitized

\* getTraceID(gt_trace_id)
CallGetTraceID ==
  /\ gt_result = NotCalled
  /\ gt_result' = getTraceID(gt_trace_id)
  /\ UNCHANGED <<gt_trace_id, san_input, san_result, san_again>>
  /\ UNCHANGED <<loggerVars, visitorVars>>

SanitizeInit ==
  /\ gt_trace_id = 0
  /\ gt_result = NotCalled
  /\ san_input \in SanitizeInputs
  /\ san_result = NotSanitized
  /\ san_again = NotSanitized

\* sanitize(san_input)
CallSanitize ==
  /\ san_result = NotSanitized
  /\ san_result' = sanitize(san_input)
  /\ UNCHANGED <<gt_trace_id, gt_result, san_input, san_again>>
  /\ UNCHANGED <<loggerVars, visitorVars>>

\* sanitize(sanitize(san_input))
CallSanitizeAgain ==
  /\ san_result # NotSanitized
  /\ san_again = NotSanitized
  /\ san_again' = sanitize(san_result)
  /\ UNCHANGED <<gt_trace_id, gt_result, san_input, san_result>>
  /\ UNCHANGED <<loggerVars, visitorVars>>

SanitizeNext == CallSanitize \/ CallSanitizeAgain

(***************************************************************************)
(* Specifications                                                          *)
(***************************************************************************)

\* a freshly constructed Logger with no call made
LoggerAtRest ==
  /\ entryID_ = 0
  /\ wraps = 0
  /\ cursor = 0
  /\ pc = [t \in Threads |-> "idle"]
  /\ api = [t \in Threads |-> "none"]
  /\ step = [t \in Threads |-> 1]
  /\ id = [t \in Threads |-> 0]
  /\ fetches = [t \in Threads |-> 0]
  /\ allocs = <<>>
  /\ returned = <<>>
  /\ calls = 0
  /\ invokedAt = [t \in Threads |-> 0]
  /\ startID = 0

\* a freshly constructed visitor
VisitorAtRest ==
  /\ VisitorInit
  /\ expected_trace_ = 42
  /\ callbacks_ = TRUE

Init == VisitorInit /\ LoggerAtRest /\ HelpersAtRest
Next == VisitorNext
Spec == Init /\ [][Next]_vars

LoggerSpecInit == LoggerInit /\ VisitorAtRest /\ HelpersAtRest
LoggerSpec == LoggerSpecInit /\ [][LoggerNext]_vars

GetTraceIDSpecInit == GetTraceIDInit /\ LoggerAtRest /\ VisitorAtRest
GetTraceIDSpec == GetTraceIDSpecInit /\ [][CallGetTraceID]_vars

SanitizeSpecInit == SanitizeInit /\ LoggerAtRest /\ VisitorAtRest
SanitizeSpec == SanitizeSpecInit /\ [][SanitizeNext]_vars

PipelineSpecInit == VisitorAtRest /\ LoggerAtRest /\ HelpersAtRest
PipelineSpec == PipelineSpecInit /\ [][PipelineNext]_vars

(***************************************************************************)
(* Properties                                                              *)
(***************************************************************************)

\* C1: no write / writeAndGetCursor call made with a step >= 1 ever returns
\* the sentinel id -1 (TRACING_DISABLED) or 0 (NO_MATCH), from the initial
\* counter value and from the values the counter has after a wrap-around.
C1_NoSentinelReturned ==
  \A i \in 1..Len(returned) :
    returned[i].step >= 1 =>
      /\ returned[i].id # TRACING_DISABLED
      /\ returned[i].id # NO_MATCH

\* a call with a positive step that met both sentinels (three fetch-adds)
\* has returned
C1_Witness ==
  \E i \in 1..Len(returned) :
    /\ returned[i].step >= 1
    /\ returned[i].fetches = 3
    /\ returned[i].id > 0

\* C2 as stated: among the calls made with a positive step, a call returns
\* an id strictly greater than the id of every call whose allocation (its
\* last fetch-add) happened earlier.
C2_StrictlyIncreasing ==
  \A i, j \in 1..Len(returned) :
    (/\ returned[i].seq < returned[j].seq
     /\ returned[i].step >= 1
     /\ returned[j].step >= 1)
      => returned[i].id < returned[j].id

\* C2 amended: among the calls made with a positive step, a call returns an
\* id strictly greater than the id of every call whose allocation happened
\* earlier, as long as the 32-bit counter did not wrap around between the two
\* allocations.
C2_StrictlyIncreasingBetweenWraps ==
  \A i, j \in 1..Len(returned) :
    (/\ returned[i].seq < returned[j].seq
     /\ returned[i].step >= 1
     /\ returned[j].step >= 1
     /\ returned[i].epoch = returned[j].epoch)
      => returned[i].id < returned[j].id

\* two overlapping calls: the one that allocated its id first returned last
C2_Witness ==
  \E i, j \in 1..Len(returned) :
    /\ i < j
    /\ returned[j].seq < returned[i].seq
    /\ returned[i].thread # returned[j].thread
    /\ returned[i].step >= 1
    /\ returned[j].step >= 1
    /\ returned[i].epoch = returned[j].epoch

IsVisitStep == visits' = visits + 1 /\ lastCall'.op = "visit"

LifecycleTypes == {"TRACE_START", "TRACE_END", "TRACE_ABORT", "TRACE_TIMEOUT"}

TerminalCallbacks == {"onTraceEnd", "onTraceAbort"}

Active == output_ # <<>> /\ delegates_ # <<>>
Idle == output_ = <<>> /\ delegates_ = <<>>

\* C3 as stated: for a TRACE_START that opened a file and fired onTraceStart,
\* the terminal callbacks (onTraceEnd, onTraceAbort) invoked since are never
\* two or more, and there is exactly one once the file has been closed.
C3_ExactlyOneTerminalCallback ==
  (cbLog # <<>> /\ cbLog[1].ev = "onTraceStart") =>
    /\ \A i \in 2..Len(cbLog) : cbLog[i].ev \in TerminalCallbacks
    /\ Len(cbLog) <= 2
    /\ (output_ = <<>> => Len(cbLog) = 2)

\* C4 as stated: a TRACE_START, TRACE_END, TRACE_ABORT or TRACE_TIMEOUT whose
\* extra differs from the expected trace id changes nothing: no file is
\* opened or closed, no callback fires, nothing is written to an open file.
C4_MismatchedLifecycleEntryIgnored ==
  [][(/\ IsVisitStep
      /\ lastCall'.entry.kind = "StandardEntry"
      /\ lastCall'.entry.type \in LifecycleTypes
      /\ lastCall'.entry.extra # expected_trace_
      /\ lastExc' = "none")
       => /\ output_' = output_
          /\ delegates_' = delegates_
          /\ done_' = done_
          /\ cbLog' = cbLog
          /\ fileLines' = fileLines
          /\ lastEvents' = <<>>]_vars

\* C5: a TRACE_START carrying the expected trace id while a trace is active
\* tears the pipeline down and closes the file, then invokes
\* onTraceAbort(expected, NEW_START) once, and does nothing else: no file is
\* opened, no onTraceStart is invoked, the entry is written to no file.
C5_DoubleStartAborts ==
  [][(/\ IsVisitStep
      /\ lastCall'.entry.kind = "StandardEntry"
      /\ lastCall'.entry.type = "TRACE_START"
      /\ lastCall'.entry.extra = expected_trace_
      /\ output_ # <<>>
      /\ callbacks_)
       => /\ lastEvents' = <<Event("cleanupState"),
                            OnTraceAbortCb(expected_trace_, "NEW_START")>>
          /\ lastExc' = "none"
          /\ output_' = <<>>
          /\ delegates_' = <<>>
          /\ fileLines' = fileLines
          /\ cbLog' = Append(cbLog,
                             OnTraceAbortCb(expected_trace_, "NEW_START"))]_vars

C5_Witness ==
  /\ lastCall.op = "visit"
  /\ lastCall.entry.type = "TRACE_START"
  /\ lastCall.entry.extra = expected_trace_
  /\ Len(lastEvents) = 2
  /\ lastEvents[2].ev = "onTraceAbort"
  /\ lastEvents[2].reason = "NEW_START"
  /\ Idle

\* C6: with a negative expected trace id, a TRACE_START carrying it exits
\* with invalid_argument and does nothing: no folder, no file, no pipeline,
\* no callback, every field as before, and the visitor is idle.
C6_NegativeTraceIdFailsStart ==
  [][(/\ IsVisitStep
      /\ lastCall'.entry.kind = "StandardEntry"
      /\ lastCall'.entry.type = "TRACE_START"
      /\ lastCall'.entry.extra = expected_trace_
      /\ expected_trace_ < 0)
       => /\ lastExc' = "invalid_argument"
          /\ lastEvents' = <<>>
          /\ output_ = <<>> /\ output_' = <<>>
          /\ delegates_ = <<>> /\ delegates_' = <<>>
          /\ done_' = done_
          /\ fileLines' = fileLines
          /\ cbLog' = cbLog]_vars

C6_Witness ==
  /\ lastCall.op = "visit"
  /\ lastCall.entry.type = "TRACE_START"
  /\ lastCall.entry.extra = expected_trace_
  /\ expected_trace_ < 0
  /\ lastExc = "invalid_argument"
  /\ Idle

TerminalCallbackOf(entry) ==
  CASE entry.type = "TRACE_END" -> OnTraceEndCb(entry.extra)
    [] entry.type = "TRACE_ABORT" ->
         OnTraceAbortCb(entry.extra, "CONTROLLER_INITIATED")
    [] entry.type = "TRACE_TIMEOUT" -> OnTraceAbortCb(entry.extra, "TIMEOUT")

\* C7: a TRACE_END, TRACE_ABORT or TRACE_TIMEOUT carrying the expected trace
\* id while a trace is active (and whose write succeeds) is first written to
\* the file as its last entry, then the pipeline is torn down and the file
\* closed, then onTraceEnd(id), onTraceAbort(id, CONTROLLER_INITIATED) or
\* onTraceAbort(id, TIMEOUT) is invoked; the visitor is idle afterwards.
C7_TerminalEntryOrder ==
  [][(/\ IsVisitStep
      /\ lastCall'.entry.kind = "StandardEntry"
      /\ lastCall'.entry.type \in {"TRACE_END", "TRACE_ABORT", "TRACE_TIMEOUT"}
      /\ lastCall'.entry.extra = expected_trace_
      /\ Active
      /\ callbacks_
      /\ lastExc' = "none")
       => /\ lastEvents' = <<WriteEvent(lastCall'.entry),
                            Event("cleanupState"),
                            TerminalCallbackOf(lastCall'.entry)>>
          /\ fileLines' = Append(fileLines, lastCall'.entry)
          /\ output_' = <<>>
          /\ delegates_' = <<>>]_vars

C7_Witness ==
  /\ lastCall.op = "visit"
  /\ lastCall.entry.type = "TRACE_TIMEOUT"
  /\ Len(lastEvents) = 3
  /\ lastEvents[1].ev = "write"
  /\ lastEvents[3] = OnTraceAbortCb(expected_trace_, "TIMEOUT")
  /\ Idle

C9_StartOrder ==
  [][/\ (/\ IsVisitStep
         /\ lastCall'.entry.kind = "StandardEntry"
         /\ lastCall'.entry.type = "TRACE_START"
         /\ lastCall'.entry.extra = expected_trace_
         /\ expected_trace_ >= 0
         /\ output_ = <<>>
         /\ callbacks_
         /\ lastExc' = "none")
          => /\ Len(lastEvents') = 6
             /\ lastEvents'[1].ev = "ensureFolder"
             /\ lastEvents'[2].ev = "open"
             /\ lastEvents'[3].ev = "writeHeaders"
             /\ lastEvents'[4].ev = "pipeline"
             /\ lastEvents'[5] = OnTraceStartCb(expected_trace_,
                                                lastCall'.entry.matchid,
                                                lastEvents'[2].path)
             /\ lastEvents'[6] = WriteEvent(lastCall'.entry)
             /\ output_' = <<lastEvents'[2].path>>
             /\ delegates_' = Pipeline
             /\ Len(fileLines') = 2
             /\ fileLines'[1].kind = "header"
             /\ fileLines'[2] = lastCall'.entry
             /\ cbLog' = <<lastEvents'[5]>>
     /\ (/\ IsVisitStep
         /\ lastCall'.entry.kind = "StandardEntry"
         /\ lastCall'.entry.type = "TRACE_END"
         /\ lastCall'.entry.extra = expected_trace_
         /\ lastCall.op = "visit"
         /\ lastCall.entry.type = "TRACE_START"
         /\ lastCall.entry.extra = expected_trace_
         /\ Active
         /\ callbacks_
         /\ lastExc' = "none")
          => cbLog' = <<OnTraceStartCb(expected_trace_, lastCall.entry.matchid,
                                       output_[1]),
                        OnTraceEndCb(expected_trace_)>>]_vars

C9_Witness ==
  /\ lastCall.op = "visit"
  /\ lastCall.entry.type = "TRACE_START"
  /\ Len(lastEvents) = 6
  /\ lastEvents[5].ev = "onTraceStart"
  /\ lastEvents[5].flags = 7
  /\ lastEvents[6].ev = "write"
  /\ Active

IsLifecycleEntry(entry) ==
  entry.kind = "StandardEntry" /\ entry.type \in LifecycleTypes

ForwardedOnly ==
  /\ lastEvents' = <<WriteEvent(lastCall'.entry)>>
  /\ fileLines' = Append(fileLines, lastCall'.entry)
  /\ cbLog' = cbLog
  /\ output_' = output_
  /\ delegates_' = delegates_

\* C10 as stated: while a trace is active, every entry other than
\* TRACE_START, TRACE_END, TRACE_ABORT and TRACE_TIMEOUT (whose write
\* succeeds) is appended to the file, invokes no callback and leaves the
\* trace active.
C10_OtherEntriesForwarded ==
  [][(/\ IsVisitStep
      /\ Active
      /\ ~IsLifecycleEntry(lastCall'.entry)
      /\ lastExc' = "none")
       => ForwardedOnly]_vars

\* C10 amended: while a trace is active, every entry other than TRACE_START,
\* TRACE_END, TRACE_ABORT, TRACE_TIMEOUT and a TRACE_BACKWARDS carrying the
\* expected trace id (whose write succeeds) is appended to the file, invokes
\* no callback and leaves the trace active; a TRACE_BACKWARDS carrying the
\* expected trace id is handled as a TRACE_START: it aborts the active trace
\* with NEW_START and is not written.
C10_OtherEntriesForwardedButBackwards ==
  [][/\ (/\ IsVisitStep
         /\ Active
         /\ ~IsLifecycleEntry(lastCall'.entry)
         /\ ~(/\ lastCall'.entry.kind = "StandardEntry"
              /\ lastCall'.entry.type = "TRACE_BACKWARDS"
              /\ lastCall'.entry.extra = expected_trace_)
         /\ lastExc' = "none")
          => ForwardedOnly
     /\ (/\ IsVisitStep
         /\ Active
         /\ lastCall'.entry.kind = "StandardEntry"
         /\ lastCall'.entry.type = "TRACE_BACKWARDS"
         /\ lastCall'.entry.extra = expected_trace_)
          => /\ output_' = <<>>
             /\ delegates_' = <<>>
             /\ fileLines' = fileLines
             /\ lastExc' = "none"
             /\ callbacks_ =>
                  lastEvents' = <<Event("cleanupState"),
                                  OnTraceAbortCb(expected_trace_,
                                                 "NEW_START")>>]_vars

\* a FramesEntry and then a BytesEntry were written behind the header and
\* the TRACE_START entry of an active trace
C10_Witness ==
  /\ Active
  /\ lastCall.op = "visit"
  /\ lastCall.entry.kind = "BytesEntry"
  /\ Len(fileLines) = 4
  /\ fileLines[3].kind = "FramesEntry"
  /\ fileLines[4] = lastCall.entry
  /\ lastEvents = <<WriteEvent(lastCall.entry)>>

(***************************************************************************)
(* Properties of the Logger, continued                                     *)
(***************************************************************************)

\* call i had returned when call j was invoked (i, j index returned)
ReturnedBeforeInvoked(i, j) == i <= returned[j].invokedAt

\* calls i and j were in progress at the same time
Overlapped(i, j) == ~ReturnedBeforeInvoked(i, j) /\ ~ReturnedBeforeInvoked(j, i)

\* C11 as stated: whenever a call (with a positive step) returns before
\* another one is invoked, on the same thread or not, it has the smaller
\* entry id and the smaller ring-buffer cursor, whatever other threads do.
C11_ProgramOrder ==
  \A i, j \in 1..Len(returned) :
    (/\ ReturnedBeforeInvoked(i, j)
     /\ returned[i].step >= 1
     /\ returned[j].step >= 1)
      => /\ returned[i].id < returned[j].id
         /\ returned[i].cursor < returned[j].cursor

\* C11 amended: whenever a call (with a positive step) returns before another
\* one is invoked, it has the smaller ring-buffer cursor and, as long as the
\* 32-bit counter did not wrap around between the two allocations, the
\* smaller entry id.
C11_ProgramOrderBetweenWraps ==
  \A i, j \in 1..Len(returned) :
    (/\ ReturnedBeforeInvoked(i, j)
     /\ returned[i].step >= 1
     /\ returned[j].step >= 1)
      => /\ returned[i].cursor < returned[j].cursor
         /\ returned[i].epoch = returned[j].epoch
              => returned[i].id < returned[j].id

\* two successive calls of one thread, with a call of another thread in
\* progress from before the first returned until after the second returned
C11_Witness ==
  \E i, j, k \in 1..Len(returned) :
    /\ ReturnedBeforeInvoked(i, j)
    /\ returned[i].thread = returned[j].thread
    /\ returned[k].thread # returned[i].thread
    /\ returned[k].invokedAt < i
    /\ k > j
    /\ returned[i].step >= 1 /\ returned[j].step >= 1
    /\ returned[i].epoch = returned[j].epoch

\* the counter value after v with the sentinels removed
SkipSentinels(v) == IF v = -1 \/ v = 0 THEN 1 ELSE v

\* v + s in 32-bit two's complement
PlusInt32(v, s) ==
  IF v <= MaxInt32 - s THEN v + s ELSE MinInt32 + (s - (MaxInt32 - v) - 1)

AllIdle == \A t \in Threads : pc[t] = "idle"

\* C12: with step 1 and no concurrent caller, the first call returns the
\* counter value the run starts from, or 1 if that is a sentinel (1 for a
\* fresh Logger), and each next call returns the value after the previous id,
\* or 1 if that is a sentinel (-2, 1, 2 from a counter at -2); with step s a
\* call run alone leaves the counter s above the id it returns.
C12_SuccessiveIds ==
  /\ \A k \in 1..Len(returned) :
       (returned[k].alone /\ returned[k].step = 1) =>
         /\ k = 1 => returned[k].id = SkipSentinels(startID)
         /\ (k > 1 /\ returned[k - 1].alone /\ returned[k - 1].step = 1) =>
              returned[k].id = SkipSentinels(PlusInt32(returned[k - 1].id, 1))
  /\ (startID = 0 /\ Len(returned) >= 1
        /\ returned[1].alone /\ returned[1].step = 1) => returned[1].id = 1
  /\ (startID = -2 /\ Len(returned) = 3
        /\ \A k \in 1..3 : returned[k].alone /\ returned[k].step = 1) =>
       <<returned[1].id, returned[2].id, returned[3].id>> = <<-2, 1, 2>>
  /\ (AllIdle /\ returned # <<>> /\ returned[Len(returned)].alone) =>
       entryID_ = PlusInt32(returned[Len(returned)].id,
                            returned[Len(returned)].step)

\* three calls with step 1, one after the other, from a counter at -2
C12_Witness ==
  /\ startID = -2
  /\ Len(returned) = 3
  /\ \A k \in 1..3 : returned[k].alone /\ returned[k].step = 1
  /\ returned[2].fetches = 3
  /\ AllIdle

C20_IdOrderIsCursorOrder ==
  \A i, j \in 1..Len(returned) :
    (/\ returned[i].step >= 1
     /\ returned[j].step >= 1
     /\ returned[i].epoch = returned[j].epoch
     /\ returned[i].id < returned[j].id)
      => returned[i].cursor < returned[j].cursor

\* C20 amended: of two calls (with positive steps, and no wrap-around of the
\* counter between them), the one with the smaller entry id has the smaller
\* ring-buffer cursor unless the two calls overlapped on different threads.
C20_IdOrderIsCursorOrderUnlessOverlapped ==
  \A i, j \in 1..Len(returned) :
    (/\ returned[i].step >= 1
     /\ returned[j].step >= 1
     /\ returned[i].epoch = returned[j].epoch
     /\ returned[i].id < returned[j].id
     /\ ~(returned[i].cursor < returned[j].cursor))
      => /\ returned[i].thread # returned[j].thread
         /\ Overlapped(i, j)

\* two overlapping calls: the one with the smaller id has the larger cursor
C20_Witness ==
  \E i, j \in 1..Len(returned) :
    /\ returned[i].step >= 1
    /\ returned[j].step >= 1
    /\ returned[i].epoch = returned[j].epoch
    /\ returned[i].id < returned[j].id
    /\ returned[i].cursor > returned[j].cursor
    /\ Overlapped(i, j)

(***************************************************************************)
(* Properties of getTraceID and sanitize                                   *)
(***************************************************************************)

Base64Chars == UpperCase \cup LowerCase \cup Digits \cup {"+", "/"}

\* the value of a base-64 digit
DigitValue(ch) == CHOOSE d \in 0..63 : kBase64Alphabet[d + 1] = ch

\* the number a string of base-64 digits stands for, most significant
\* digit first
RECURSIVE DecodeBase64(_)
DecodeBase64(str) ==
  IF str = <<>>
    THEN 0
    ELSE DecodeBase64(SubSeq(str, 1, Len(str) - 1)) * 64
           + DigitValue(str[Len(str)])

\* C13: for a non-negative id getTraceID returns 11 characters of the
\* alphabet A-Z a-z 0-9 + /, most significant base-64 digit first and padded
\* with 'A' (the digits 26, 52, 62, 63 are a, 0, +, /); decoding the digits
\* gives back the id, and no other id gives the same string.
C13_GetTraceIDRoundTrip ==
  (gt_result # NotCalled /\ gt_trace_id >= 0) =>
    /\ gt_result.exc = "none"
    /\ Len(gt_result.value) = 11
    /\ \A i \in 1..11 : gt_result.value[i] \in Base64Chars
    /\ gt_trace_id < 64 => \A i \in 1..10 : gt_result.value[i] = "A"
    /\ gt_trace_id <= MaxInt32 => \A i \in 1..5 : gt_result.value[i] = "A"
    /\ DecodeBase64(gt_result.value) = gt_trace_id
    /\ gt_trace_id = 26 => gt_result.value[11] = "a"
    /\ gt_trace_id = 52 => gt_result.value[11] = "0"
    /\ gt_trace_id = 62 => gt_result.value[11] = "+"
    /\ gt_trace_id = 63 => gt_result.value[11] = "/"
    /\ gt_trace_id = 64 =>
         gt_result.value[10] = "B" /\ gt_result.value[11] = "A"
    /\ \A y \in TraceIdInputs :
         (y >= 0 /\ y # gt_trace_id) =>
           getTraceID(y).value # gt_result.value

\* getTraceID has returned the string of the largest id
C13_Witness ==
  /\ gt_trace_id = MaxInt32
  /\ gt_result.exc = "none"
  /\ gt_result.value
       = <<"A", "A", "A", "A", "A", "B", "/", "/", "/", "/", "/">>

SafeChars == UpperCase \cup LowerCase \cup Digits \cup {".", "_", "-"}

\* C14: the result of sanitize has the length of its argument, holds only
\* characters of [A-Za-z0-9._-] and keeps every character of the argument
\* that is in that set at its position; sanitizing the result again gives
\* the result.
C14_SanitizeIdempotent ==
  /\ san_result # NotSanitized =>
       /\ Len(san_result) = Len(san_input)
       /\ \A i \in 1..Len(san_result) : san_result[i] \in SafeChars
       /\ \A i \in 1..Len(san_input) :
            san_input[i] \in SafeChars => san_result[i] = san_input[i]
  /\ san_again # NotSanitized => san_again = san_result

\* sanitize has been applied twice to a string with a dot and a character
\* it replaces
C14_Witness ==
  /\ san_again # NotSanitized
  /\ \E i, j \in 1..Len(san_input) :
       san_input[i] = "." /\ san_input[j] \notin SafeChars
  /\ san_result # san_input

(***************************************************************************)
(* Properties of the pipeline and of the visitor's state                   *)
(***************************************************************************)

\* a timestamp rounded down to the precision
Truncated(timestamp) == timestamp - (timestamp % kTimestampPrecision)

\* the entry lines of the file: the first line stands for the header block
EntryLines == 2..Len(fileLines)

\* C15: every entry written to the file has gone through the
\* StackTraceInvertingVisitor, the TimestampTruncatingVisitor, the
\* DeltaEncodingVisitor and the PrintEntryVisitor, in this order; its
\* timestamp in the file is truncate(its timestamp) - truncate(the timestamp
\* of the entry written before it), the first entry counting from 0, and its
\* frames are in reverse order.
C15_TruncationBeforeDelta ==
  /\ Len(printed) = Len(fileLines)
  /\ \A k \in EntryLines :
       /\ printed[k].stages =
            <<"StackTraceInvertingVisitor", "TimestampTruncatingVisitor",
              "DeltaEncodingVisitor", "PrintEntryVisitor">>
       /\ printed[k].timestamp =
            Truncated(fileLines[k].timestamp)
              - (IF k = 2 THEN 0 ELSE Truncated(fileLines[k - 1].timestamp))
       /\ \A f \in 1..Len(fileLines[k].frames) :
            printed[k].frames[f]
              = fileLines[k].frames[Len(fileLines[k].frames) + 1 - f]

\* two entries 50 apart in time, on either side of a multiple of the
\* precision, are written 100 apart, and the frames of a FramesEntry are
\* written in reverse order
C15_Witness ==
  /\ Len(fileLines) >= 3
  /\ fileLines[2].timestamp = 1050
  /\ fileLines[3].timestamp = 1100
  /\ printed[3].timestamp = 100
  /\ fileLines[3].kind = "FramesEntry"
  /\ printed[3].frames = <<"0xB", "0xA">>

\* C16: after a terminal transition (done_ set, no file open) a TRACE_START
\* carrying the expected id opens a new file and constructs a new pipeline;
\* the timestamp written for it is truncate(its timestamp) and the running
\* prior of the new delta encoder is that value, whatever the trace before
\* has written.
C16_DeltaStateResets ==
  [][(/\ IsVisitStep
      /\ lastCall'.entry.type = "TRACE_START"
      /\ lastCall'.entry.extra = expected_trace_
      /\ Idle
      /\ done_
      /\ lastExc' = "none")
       => /\ opened' = opened + 1
          /\ \E k \in 1..Len(lastEvents') : lastEvents'[k].ev = "open"
          /\ output_' # <<>>
          /\ delegates_' = Pipeline
          /\ ~done_'
          /\ fileLines' = <<fileLines'[1], lastCall'.entry>>
          /\ fileLines'[1].kind = "header"
          /\ printed'[2].timestamp = Truncated(lastCall'.entry.timestamp)
          /\ prior' = Truncated(lastCall'.entry.timestamp)]_vars

\* a second trace has been started, at a timestamp below the one the first
\* trace was started at
C16_Witness ==
  /\ opened = 2
  /\ lastCall.op = "visit"
  /\ lastCall.entry.type = "TRACE_START"
  /\ lastCall.entry.timestamp = 1050
  /\ lastExc = "none"
  /\ output_ # <<>>
  /\ Len(fileLines) = 2
  /\ printed[2].timestamp = 1000
  /\ prior = 1000

\* C18 as stated: after every call of visit or abort, also one that exits
\* with an exception, the output file is open exactly if the pipeline of
\* four visitors exists.
C18_FileOpenIffPipeline ==
  (output_ # <<>>) <=> (delegates_ = Pipeline)

\* C19 as stated: a TRACE_END, TRACE_ABORT or TRACE_TIMEOUT carrying the
\* expected id, or a call of abort, that arrives while no trace is active
\* invokes no callback and changes no state.
C19_TerminalOnlyWhenActive ==
  [][(/\ visits' = visits + 1
      /\ \/ lastCall'.op = "abort"
         \/ /\ lastCall'.op = "visit"
            /\ lastCall'.entry.kind = "StandardEntry"
            /\ lastCall'.entry.type
                 \in {"TRACE_END", "TRACE_ABORT", "TRACE_TIMEOUT"}
            /\ lastCall'.entry.extra = expected_trace_
      /\ Idle
      /\ callbacks_)
       => /\ lastEvents' = <<>>
          /\ cbLog' = cbLog
          /\ output_' = output_
          /\ delegates_' = delegates_
          /\ done_' = done_]_vars

====
